---- MODULE Spec2Model ----
(***************************************************************************)
(* A model of apikey-client.py: MCPClientDemo.run and main.                *)
(*                                                                         *)
(* run opens a stdio channel to a tool-provider process, performs the      *)
(* handshake, lists the tools, reshapes them into the completion           *)
(* endpoint's function list, asks the model once with the functions and    *)
(* once without, and calls the tool the model asks for in between.         *)
(*                                                                         *)
(* Python values are tagged records, so that None, "", {} and [] are       *)
(* distinct values with Python's truthiness.  Non-ASCII string literals of *)
(* the source are transliterated.                                          *)
(***************************************************************************)
EXTENDS Integers, Sequences, FiniteSets, TLC

(***************************************************************************)
(* Python values                                                           *)
(***************************************************************************)
None == [type |-> "NoneType"]

PyStr(s) == [type |-> "str", value |-> s]

PyInt(n) == [type |-> "int", value |-> n]

PyDict(f) == [type |-> "dict", value |-> f]

PyList(q) == [type |-> "list", value |-> q]

EmptyMap == [k \in {} |-> None]

\* bool(v): None, "", 0, {} and [] are false, every other value is true
\* (an object such as a FunctionCall or a CallToolResult is true).
Truthy(v) ==
    CASE v.type = "NoneType" -> FALSE
      [] v.type = "str"      -> v.value # ""
      [] v.type = "int"      -> v.value # 0
      [] v.type = "dict"     -> DOMAIN v.value # {}
      [] v.type = "list"     -> Len(v.value) # 0
      [] OTHER               -> TRUE

\* a or b
PyOr(a, b) == IF Truthy(a) THEN a ELSE b

\* d.update(e) on the mappings of two dicts
DictUpdate(d, e) ==
    [k \in DOMAIN d \cup DOMAIN e |-> IF k \in DOMAIN e THEN e[k] ELSE d[k]]

(***************************************************************************)
(* json.loads, on a payload given as its sequence of lexical tokens.       *)
(* The subset parsed is the flat one argument payloads use: a scalar, an   *)
(* object of scalars, an array of scalars.                                 *)
(***************************************************************************)
JSONDecodeError == [type |-> "JSONDecodeError"]

StringTokens == {"\"city_name\"", "\"Shenzhen\"", "\"unit\""}

NumberTokens == {"1"}

ScalarTokens == StringTokens \cup NumberTokens

ScalarValue(tok) ==
    CASE tok = "\"city_name\"" -> PyStr("city_name")
      [] tok = "\"Shenzhen\""  -> PyStr("Shenzhen")
      [] tok = "\"unit\""      -> PyStr("unit")
      [] tok = "1"             -> PyInt(1)

\* members: key ":" value ("," key ":" value)*
IsMembers(m) ==
    /\ Len(m) % 4 = 3
    /\ \A i \in 1..Len(m) :
         CASE i % 4 = 1 -> m[i] \in StringTokens
           [] i % 4 = 2 -> m[i] = ":"
           [] i % 4 = 3 -> m[i] \in ScalarTokens
           [] OTHER     -> m[i] = ","

\* the mapping of a member list; a repeated key keeps its last value
MembersValue(m) ==
    LET n == (Len(m) + 1) \div 4
        keyAt(j) == ScalarValue(m[4 * j - 3]).value
        last(k) == CHOOSE j \in 1..n :
                       /\ keyAt(j) = k
                       /\ \A h \in 1..n : keyAt(h) = k => h <= j
    IN  [k \in {keyAt(j) : j \in 1..n} |-> ScalarValue(m[4 * last(k) - 1])]

\* elements: value ("," value)*
IsElements(m) ==
    /\ Len(m) % 2 = 1
    /\ \A i \in 1..Len(m) :
         IF i % 2 = 1 THEN m[i] \in ScalarTokens ELSE m[i] = ","

ElementsValue(m) ==
    [j \in 1..((Len(m) + 1) \div 2) |-> ScalarValue(m[2 * j - 1])]

JsonLoads(toks) ==
    LET inner == SubSeq(toks, 2, Len(toks) - 1)
    IN  CASE Len(toks) = 1 /\ toks[1] \in ScalarTokens -> ScalarValue(toks[1])
          [] Len(toks) >= 2 /\ toks[1] = "{" /\ toks[Len(toks)] = "}" ->
               IF Len(inner) = 0 THEN PyDict(EmptyMap)
               ELSE IF IsMembers(inner) THEN PyDict(MembersValue(inner))
               ELSE JSONDecodeError
          [] Len(toks) >= 2 /\ toks[1] = "[" /\ toks[Len(toks)] = "]" ->
               IF Len(inner) = 0 THEN PyList(<<>>)
               ELSE IF IsElements(inner) THEN PyList(ElementsValue(inner))
               ELSE JSONDecodeError
          [] OTHER -> JSONDecodeError

(***************************************************************************)
(* The environment: the tool provider's registry and the completion        *)
(* endpoint's replies.                                                     *)
(***************************************************************************)
MaxTools == 2

\* source literal: the query passed by main (transliterated)
UserQuery == "Shenzhen de tianqi zenmeyang"

\* a schema a provider publishes for a one-argument tool
CitySchema ==
    PyDict([type       |-> PyStr("object"),
            title      |-> PyStr("get_weatherArguments"),
            properties |-> PyDict([city_name |-> PyDict([type |-> PyStr("string")])]),
            required   |-> PyList(<<PyStr("city_name")>>)])

\* a schema a provider publishes for a tool without arguments
NoArgSchema ==
    PyDict([type |-> PyStr("object"), properties |-> PyDict(EmptyMap)])

Tool(n, d, s) == [type |-> "Tool", name |-> PyStr(n), description |-> d, inputSchema |-> s]

\* the descriptors a provider may register
Descriptors ==
    { Tool("get_weather", PyStr("weather of a city"), CitySchema),
      Tool("get_weather", None, None),
      Tool("ping", PyStr("liveness probe"), PyDict(EmptyMap)),
      Tool("ping", None, NoArgSchema),
      Tool("get_time", PyStr(""), None) }

\* a registry: an ordered list of descriptors with distinct names
Registries ==
    { r \in UNION { [1..n -> Descriptors] : n \in 0..MaxTools } :
        \A i, j \in 1..Len(r) : r[i].name = r[j].name => i = j }

ExposedNames(reg) == { reg[i].name : i \in 1..Len(reg) }

\* argument payloads a model may produce, as token sequences
Payloads ==
    { <<"{", "\"city_name\"", ":", "\"Shenzhen\"", "}">>,
      <<"{", "}">>,
      <<"[", "\"Shenzhen\"", "]">>,
      <<"\"Shenzhen\"">>,
      <<"{", "\"city_name\"", ":">>,
      <<>> }

FunctionCall(n, p) == [type |-> "FunctionCall", name |-> PyStr(n), arguments |-> p]

RequestedNames == {"get_weather", "ping", "no_such_tool"}

Contents == {None, PyStr(""), PyStr("It is sunny in Shenzhen.")}

Message(c, f) == [type |-> "ChatCompletionMessage", content |-> c, function_call |-> f]

\* replies to the request that carries the function list
RepliesWithFunctions ==
    { Message(c, None) : c \in Contents }
    \cup { Message(c, FunctionCall(n, p)) :
             c \in {None, PyStr("Let me check.")}, n \in RequestedNames, p \in Payloads }

\* replies to the request that carries no function list
RepliesNoFunctions == { Message(c, None) : c \in Contents }

CallToolResult(e, t) == [type |-> "CallToolResult", isError |-> e, content |-> PyStr(t)]

\* what session.call_tool may do: return a result, return an error-flagged
\* result, or raise.  An unknown tool or a non-mapping argument cannot succeed.
CallToolOutcomes(reg, name, args) ==
    LET failures == { CallToolResult(TRUE, "tool error"),
                      [type |-> "ToolInvocationError"] }
    IN  IF name \in ExposedNames(reg) /\ args.type = "dict"
        THEN failures \cup { CallToolResult(FALSE, "sunny, 25C") }
        ELSE failures

IsException(v) ==
    v.type \in {"ConnectionError", "EndpointError", "JSONDecodeError", "ToolInvocationError"}

(***************************************************************************)
(* The function list built from the descriptors                            *)
(***************************************************************************)
\* mutant: the fallback schema without its "required" list
DefaultSchema_NoRequired ==
    PyDict([type       |-> PyStr("object"),
            properties |-> PyDict([city_name |->
                              PyDict([type        |-> PyStr("string"),
                                      description |-> PyStr("cheng shi ming cheng")])]),
            required   |-> PyList(<<>>)])

\* source literal of the description: "cheng shi ming cheng" transliterated
DefaultSchema ==
    PyDict([type       |-> PyStr("object"),
            properties |-> PyDict([city_name |->
                              PyDict([type        |-> PyStr("string"),
                                      description |-> PyStr("cheng shi ming cheng")])]),
            required   |-> PyList(<<PyStr("city_name")>>)])

ToFunction(tool) ==
    PyDict([name        |-> tool.name,
            description |-> PyOr(tool.description, PyStr("")),
            parameters  |-> PyOr(tool.inputSchema, DefaultSchema)])

BuildFunctionList(ts) == [i \in 1..Len(ts) |-> ToFunction(ts[i])]

(***************************************************************************)
(* State                                                                   *)
(***************************************************************************)
VARIABLES
    pc,                 \* position in main / run
    server_tools,       \* the provider's registry
    stdio_open,         \* inside "async with stdio_client(...)"
    session_open,       \* inside "async with ClientSession(...)"
    tools,              \* local of run
    functions,          \* local of run
    message_with_tool,  \* local of run
    result_with_tool,   \* local of run: a mapping
    tool_name,          \* local of run
    arguments,          \* local of run
    tool_result,        \* local of run
    message_no_tool,    \* local of run
    retval,             \* the value run returns
    exc,                \* the exception in flight
    console,            \* what main printed
    log                 \* the external operations issued, in order

vars == <<pc, server_tools, stdio_open, session_open, tools, functions,
          message_with_tool, result_with_tool, tool_name, arguments,
          tool_result, message_no_tool, retval, exc, console, log>>

locals == <<tools, functions, message_with_tool, result_with_tool, tool_name,
            arguments, tool_result, message_no_tool>>

Logged(op, out, args) == Append(log, [op |-> op, out |-> out, args |-> args])

Init ==
    /\ pc = "enter_stdio"
    /\ server_tools \in Registries
    /\ stdio_open = FALSE
    /\ session_open = FALSE
    /\ tools = None
    /\ functions = None
    /\ message_with_tool = None
    /\ result_with_tool = None
    /\ tool_name = None
    /\ arguments = None
    /\ tool_result = None
    /\ message_no_tool = None
    /\ retval = None
    /\ exc = None
    /\ console = <<>>
    /\ log = <<>>

(***************************************************************************)
(* MCPClientDemo.run                                                       *)
(***************************************************************************)
\* async with stdio_client(...): spawn the provider process
EnterStdio ==
    /\ pc = "enter_stdio"
    /\ \/ /\ stdio_open' = TRUE
          /\ log' = Logged("open_channel", "ok", None)
          /\ pc' = "enter_session"
          /\ exc' = exc
       \/ /\ stdio_open' = stdio_open
          /\ log' = Logged("open_channel", "raised", None)
          /\ exc' = [type |-> "ConnectionError"]
          /\ pc' = "run_end"
    /\ UNCHANGED <<server_tools, session_open, locals, retval, console>>

\* async with ClientSession(read_stream, write_stream) as session
EnterSession ==
    /\ pc = "enter_session"
    /\ session_open' = TRUE
    /\ pc' = "initialize"
    /\ UNCHANGED <<server_tools, stdio_open, locals, retval, exc, console, log>>

\* await session.initialize()
Initialize ==
    /\ pc = "initialize"
    /\ \/ /\ log' = Logged("initialize", "ok", None)
          /\ pc' = "list_tools"
          /\ exc' = exc
       \/ /\ log' = Logged("initialize", "raised", None)
          /\ exc' = [type |-> "ConnectionError"]
          /\ pc' = "exit_session"
    /\ UNCHANGED <<server_tools, stdio_open, session_open, locals, retval, console>>

\* tools = (await session.list_tools()).tools
ListTools ==
    /\ pc = "list_tools"
    /\ \/ /\ log' = Logged("list_tools", "ok", None)
          /\ tools' = PyList(server_tools)
          /\ pc' = "build_functions"
          /\ exc' = exc
       \/ /\ log' = Logged("list_tools", "raised", None)
          /\ tools' = tools
          /\ exc' = [type |-> "ConnectionError"]
          /\ pc' = "exit_session"
    /\ UNCHANGED <<server_tools, stdio_open, session_open, functions,
                   message_with_tool, result_with_tool, tool_name, arguments,
                   tool_result, message_no_tool, retval, console>>

\* functions = []; for tool in tools: functions.append({...})
BuildFunctions ==
    /\ pc = "build_functions"
    /\ functions' = PyList(BuildFunctionList(tools.value))
    /\ pc' = "completion_with_functions"
    /\ UNCHANGED <<server_tools, stdio_open, session_open, tools,
                   message_with_tool, result_with_tool, tool_name, arguments,
                   tool_result, message_no_tool, retval, exc, console, log>>

\* the keyword arguments of the first completions.create
RequestWithFunctions(fs) ==
    PyDict([model         |-> PyStr("qwen2.5-1.5b-instruct"),
            messages      |-> PyList(<<PyDict([role    |-> PyStr("user"),
                                               content |-> PyStr(UserQuery)])>>),
            functions     |-> fs,
            function_call |-> PyStr("auto")])

\* response_with_tool = self.llm.chat.completions.create(..., functions=functions,
\* function_call="auto"); message_with_tool = response_with_tool.choices[0].message
CompletionWithFunctions ==
    /\ pc = "completion_with_functions"
    /\ \/ \E m \in RepliesWithFunctions :
            /\ message_with_tool' = m
            /\ log' = Logged("completion", "ok", RequestWithFunctions(functions))
            /\ pc' = "init_result"
            /\ exc' = exc
       \/ /\ message_with_tool' = message_with_tool
          /\ log' = Logged("completion", "raised", RequestWithFunctions(functions))
          /\ exc' = [type |-> "EndpointError"]
          /\ pc' = "exit_session"
    /\ UNCHANGED <<server_tools, stdio_open, session_open, tools, functions,
                   result_with_tool, tool_name, arguments, tool_result,
                   message_no_tool, retval, console>>

\* mutant: the initial record carries the reply as its tool_result
InitResult_ReplyAsToolResult ==
    /\ pc = "init_result"
    /\ result_with_tool' = PyDict([model_reply |-> message_with_tool.content,
                                   tool_called |-> None,
                                   tool_result |-> message_with_tool.content])
    /\ IF Truthy(message_with_tool.function_call)
       THEN /\ tool_name' = message_with_tool.function_call.name
            /\ pc' = "parse_arguments"
       ELSE /\ tool_name' = tool_name
            /\ pc' = "completion_no_functions"
    /\ UNCHANGED <<server_tools, stdio_open, session_open, tools, functions,
                   message_with_tool, arguments, tool_result, message_no_tool,
                   retval, exc, console, log>>

\* mutant: the requested tool is never called
InitResult_SkipTool ==
    /\ pc = "init_result"
    /\ result_with_tool' = PyDict([model_reply |-> message_with_tool.content,
                                   tool_called |-> None,
                                   tool_result |-> None])
    /\ tool_name' = tool_name
    /\ pc' = "completion_no_functions"
    /\ UNCHANGED <<server_tools, stdio_open, session_open, tools, functions,
                   message_with_tool, arguments, tool_result, message_no_tool,
                   retval, exc, console, log>>

\* result_with_tool = {"model_reply": ..., "tool_called": None, "tool_result": None}
\* if message_with_tool.function_call: tool_name = message_with_tool.function_call.name
InitResult ==
    /\ pc = "init_result"
    /\ result_with_tool' = PyDict([model_reply |-> message_with_tool.content,
                                   tool_called |-> None,
                                   tool_result |-> None])
    /\ IF Truthy(message_with_tool.function_call)
       THEN /\ tool_name' = message_with_tool.function_call.name
            /\ pc' = "parse_arguments"
       ELSE /\ tool_name' = tool_name
            /\ pc' = "completion_no_functions"
    /\ UNCHANGED <<server_tools, stdio_open, session_open, tools, functions,
                   message_with_tool, arguments, tool_result, message_no_tool,
                   retval, exc, console, log>>

\* arguments = json.loads(message_with_tool.function_call.arguments)
ParseArguments ==
    /\ pc = "parse_arguments"
    /\ LET v == JsonLoads(message_with_tool.function_call.arguments)
       IN  IF v = JSONDecodeError
           THEN /\ exc' = JSONDecodeError
                /\ arguments' = arguments
                /\ pc' = "exit_session"
           ELSE /\ arguments' = v
                /\ exc' = exc
                /\ pc' = "call_tool"
    /\ UNCHANGED <<server_tools, stdio_open, session_open, tools, functions,
                   message_with_tool, result_with_tool, tool_name, tool_result,
                   message_no_tool, retval, console, log>>

\* tool_result = await session.call_tool(tool_name, arguments)
CallTool ==
    /\ pc = "call_tool"
    /\ \E out \in CallToolOutcomes(server_tools, tool_name, arguments) :
         LET args == PyDict([name |-> tool_name, arguments |-> arguments])
         IN  IF IsException(out)
             THEN /\ log' = Logged("call_tool", "raised", args)
                  /\ exc' = out
                  /\ tool_result' = tool_result
                  /\ pc' = "exit_session"
             ELSE /\ log' = Logged("call_tool",
                                   IF out.isError THEN "error_result" ELSE "ok", args)
                  /\ tool_result' = out
                  /\ exc' = exc
                  /\ pc' = "update_result"
    /\ UNCHANGED <<server_tools, stdio_open, session_open, tools, functions,
                   message_with_tool, result_with_tool, tool_name, arguments,
                   message_no_tool, retval, console>>

\* result_with_tool.update({"tool_called": ..., "tool_arguments": ..., "tool_result": ...})
UpdateResult ==
    /\ pc = "update_result"
    /\ result_with_tool' = PyDict(DictUpdate(result_with_tool.value,
                                             [tool_called    |-> tool_name,
                                              tool_arguments |-> arguments,
                                              tool_result    |-> tool_result]))
    /\ pc' = "completion_no_functions"
    /\ UNCHANGED <<server_tools, stdio_open, session_open, tools, functions,
                   message_with_tool, tool_name, arguments, tool_result,
                   message_no_tool, retval, exc, console, log>>

\* the keyword arguments of the second completions.create
RequestNoFunctions ==
    PyDict([model    |-> PyStr("qwen2.5-1.5b-instruct"),
            messages |-> PyList(<<PyDict([role    |-> PyStr("user"),
                                          content |-> PyStr(UserQuery)])>>)])

\* mutant: the second record repeats the first reply
ComparisonResult_RepeatsFirstReply(with_tool, no_tool) ==
    PyDict([user_query    |-> PyStr(UserQuery),
            with_mcp_tool |-> with_tool,
            without_tool  |-> PyDict([model_reply |-> with_tool.value.model_reply])])

\* the dict run returns
ComparisonResult(with_tool, no_tool) ==
    PyDict([user_query    |-> PyStr(UserQuery),
            with_mcp_tool |-> with_tool,
            without_tool  |-> PyDict([model_reply |-> no_tool.content])])

\* mutant: a failure of the second call is swallowed and a partial result returned
CompletionNoFunctions_PartialOnFailure ==
    /\ pc = "completion_no_functions"
    /\ \/ \E m \in RepliesNoFunctions :
            /\ log' = Logged("completion", "ok", RequestNoFunctions)
            /\ message_no_tool' = m
            /\ retval' = PyDict([user_query    |-> PyStr(UserQuery),
                                 with_mcp_tool |-> result_with_tool,
                                 without_tool  |-> PyDict([model_reply |-> m.content])])
       \/ /\ log' = Logged("completion", "raised", RequestNoFunctions)
          /\ message_no_tool' = message_no_tool
          /\ retval' = PyDict([user_query    |-> PyStr(UserQuery),
                               with_mcp_tool |-> result_with_tool,
                               without_tool  |-> PyDict([model_reply |-> None])])
    /\ exc' = exc
    /\ pc' = "exit_session"
    /\ UNCHANGED <<server_tools, stdio_open, session_open, tools, functions,
                   message_with_tool, result_with_tool, tool_name, arguments,
                   tool_result, console>>

\* response_no_tool = self.llm.chat.completions.create(...);
\* message_no_tool = ...; result_no_tool = {...}; return {...}
CompletionNoFunctions ==
    /\ pc = "completion_no_functions"
    /\ \/ \E m \in RepliesNoFunctions :
            /\ log' = Logged("completion", "ok", RequestNoFunctions)
            /\ message_no_tool' = m
            /\ retval' = ComparisonResult(result_with_tool, m)
            /\ exc' = exc
       \/ /\ log' = Logged("completion", "raised", RequestNoFunctions)
          /\ message_no_tool' = message_no_tool
          /\ retval' = retval
          /\ exc' = [type |-> "EndpointError"]
    /\ pc' = "exit_session"
    /\ UNCHANGED <<server_tools, stdio_open, session_open, tools, functions,
                   message_with_tool, result_with_tool, tool_name, arguments,
                   tool_result, console>>

\* ClientSession.__aexit__, on return and on an exception alike
ExitSession ==
    /\ pc = "exit_session"
    /\ session_open' = FALSE
    /\ pc' = "exit_stdio"
    /\ UNCHANGED <<server_tools, stdio_open, locals, retval, exc, console, log>>

\* mutant: the channel is closed on the normal path only
ExitStdio_LeakOnError ==
    /\ pc = "exit_stdio"
    /\ stdio_open' = (exc # None)
    /\ log' = IF exc = None THEN Logged("release_channel", "ok", None) ELSE log
    /\ pc' = "run_end"
    /\ UNCHANGED <<server_tools, session_open, locals, retval, exc, console>>

\* stdio_client.__aexit__: the provider process is terminated
ExitStdio ==
    /\ pc = "exit_stdio"
    /\ stdio_open' = FALSE
    /\ log' = Logged("release_channel", "ok", None)
    /\ pc' = "run_end"
    /\ UNCHANGED <<server_tools, session_open, locals, retval, exc, console>>

(***************************************************************************)
(* main                                                                    *)
(***************************************************************************)
Line(label, value) == [label |-> label, value |-> value]

\* the print calls of main on the result of run
Printed(result) ==
    LET w == result.value.with_mcp_tool.value
    IN  <<Line("user_query", result.value.user_query),
          Line("with_mcp_tool.model_reply", w.model_reply)>>
        \o (IF Truthy(w.tool_called)
            THEN <<Line("tool_called", w.tool_called),
                   Line("tool_arguments", w.tool_arguments),
                   Line("tool_result", w.tool_result)>>
            ELSE <<Line("no_tool_called", None)>>)
        \o <<Line("without_tool.model_reply",
                  result.value.without_tool.value.model_reply)>>

\* result = await client.run(...); print(...)
MainPrint ==
    /\ pc = "run_end"
    /\ exc = None
    /\ console' = Printed(retval)
    /\ pc' = "done"
    /\ UNCHANGED <<server_tools, stdio_open, session_open, locals, retval, exc, log>>

\* the exception of run leaves main and asyncio.run: nothing is printed
MainRaise ==
    /\ pc = "run_end"
    /\ exc # None
    /\ pc' = "done"
    /\ UNCHANGED <<server_tools, stdio_open, session_open, locals, retval, exc,
                   console, log>>

Next ==
    \/ EnterStdio
    \/ EnterSession
    \/ Initialize
    \/ ListTools
    \/ BuildFunctions
    \/ CompletionWithFunctions
    \/ InitResult
    \/ ParseArguments
    \/ CallTool
    \/ UpdateResult
    \/ CompletionNoFunctions
    \/ ExitSession
    \/ ExitStdio
    \/ MainPrint
    \/ MainRaise

Spec == Init /\ [][Next]_vars

\* every await of run completes (returns or raises) and the task is scheduled
FairSpec == Spec /\ WF_vars(Next)

(***************************************************************************)
(* Properties                                                              *)
(***************************************************************************)
OpCount(op) == Cardinality({ i \in 1..Len(log) : log[i].op = op })

RunEnded == pc \in {"run_end", "done"}

RunReturned == RunEnded /\ retval # None

\* the first reply has arrived and asks for a function call
FunctionCallRequested ==
    message_with_tool # None /\ Truthy(message_with_tool.function_call)

RequestedExposed ==
    FunctionCallRequested
    /\ message_with_tool.function_call.name \in ExposedNames(server_tools)

ChannelHeld == stdio_open \/ session_open

\* the function lists sent to the completion endpoint
SentFunctionLists ==
    { log[k].args.value.functions.value :
        k \in { j \in 1..Len(log) : /\ log[j].op = "completion"
                                    /\ "functions" \in DOMAIN log[j].args.value } }

\* C1: when the first reply names a tool the provider does not expose, with a
\* well-formed argument mapping, and the tool channel has answered the call,
\* the run ends with a tool-invocation error and returns no result.
C1_UnknownToolFailsRun ==
    ( /\ pc = "done"
      /\ FunctionCallRequested
      /\ ~RequestedExposed
      /\ arguments.type = "dict"
      /\ OpCount("call_tool") > 0 )
    => (exc = [type |-> "ToolInvocationError"] /\ retval = None)

\* C2: when the argument payload of the first reply is not a parseable JSON
\* mapping, call_tool is never invoked and the run ends with a parse error.
C2_InvalidPayloadNeverCallsTool ==
    ( /\ FunctionCallRequested
      /\ JsonLoads(message_with_tool.function_call.arguments).type # "dict" )
    => /\ OpCount("call_tool") = 0
       /\ pc = "done" => exc = JSONDecodeError

\* C3: a channel that was acquired is eventually released, it is never held
\* once the run has ended, on any path, and the session is only open inside
\* the stdio connection.
C3_ChannelReleased ==
    /\ [](ChannelHeld => <>(~ChannelHeld))
    /\ [](RunEnded => ~ChannelHeld)
    /\ [](session_open => stdio_open)

C3_Witness ==
    /\ pc = "done"
    /\ exc = [type |-> "ToolInvocationError"]
    /\ ~ChannelHeld
    /\ OpCount("open_channel") = 1
    /\ log[Len(log)].op = "release_channel"

\* C4: a run that returns a result and whose first reply held no function call
\* has tool_called and tool_result None, tool_arguments missing or None, and
\* never invoked call_tool.
C4_NoFunctionCallNoTool ==
    (RunReturned /\ ~FunctionCallRequested)
    => LET w == retval.value.with_mcp_tool.value
       IN  /\ w.tool_called = None
           /\ w.tool_result = None
           /\ ("tool_arguments" \in DOMAIN w => w.tool_arguments = None)
           /\ OpCount("call_tool") = 0

C4_Witness ==
    /\ pc = "done"
    /\ RunReturned
    /\ ~FunctionCallRequested
    /\ Truthy(retval.value.with_mcp_tool.value.model_reply)
    /\ console # <<>>

\* C5: every descriptor that has a parameter schema, the empty object included,
\* appears in the function list sent with its schema unchanged and its name.
C5_SchemaPassedUnchanged ==
    \A fs \in SentFunctionLists :
        /\ Len(fs) = Len(tools.value)
        /\ \A i \in 1..Len(fs) :
             tools.value[i].inputSchema # None
             => /\ fs[i].value.parameters = tools.value[i].inputSchema
                /\ fs[i].value.name = tools.value[i].name

\* C6: the function list sent has one entry per descriptor, in the descriptors'
\* order, and a descriptor without a parameter schema gets the fallback: an
\* object schema whose one property is city_name, a string, the only required
\* field.
C6_FallbackSchema ==
    \A fs \in SentFunctionLists :
        /\ Len(fs) = Len(tools.value)
        /\ \A i \in 1..Len(fs) :
             /\ fs[i].value.name = tools.value[i].name
             /\ tools.value[i].inputSchema = None
                => LET p == fs[i].value.parameters.value
                   IN  /\ p.type = PyStr("object")
                       /\ DOMAIN p.properties.value = {"city_name"}
                       /\ p.properties.value.city_name.value.type = PyStr("string")
                       /\ p.required = PyList(<<PyStr("city_name")>>)

C6_Witness ==
    /\ SentFunctionLists # {}
    /\ Len(tools.value) = 2
    /\ tools.value[1].inputSchema # None
    /\ tools.value[2].inputSchema = None

\* C7: when a completion call has failed, the run produces no result and main
\* prints nothing.
C7_NoPartialResult ==
    (\E i \in 1..Len(log) : log[i].op = "completion" /\ log[i].out = "raised")
    => /\ retval = None
       /\ console = <<>>
       /\ RunEnded => exc = [type |-> "EndpointError"]

C7_Witness ==
    /\ pc = "done"
    /\ OpCount("completion") = 2
    /\ log[Len(log) - 1].op = "completion"
    /\ log[Len(log) - 1].out = "raised"
    /\ tool_result # None
    /\ ~tool_result.isError
    /\ retval = None

\* C8 as stated: a run that returns a result after the model asked for an
\* exposed tool has tool_called equal to the requested name and a non-empty
\* without_tool.model_reply.
C8_ToolCalledAndReplyNonEmpty ==
    (RunReturned /\ RequestedExposed)
    => /\ retval.value.with_mcp_tool.value.tool_called
            = message_with_tool.function_call.name
       /\ Truthy(retval.value.without_tool.value.model_reply)

\* C8 amended: a run that returns a result after the model asked for an exposed
\* tool has tool_called equal to the requested name, and without_tool.model_reply
\* is the content of the second reply as the endpoint gave it.
C8_ToolCalledAndReplyRecorded ==
    (RunReturned /\ RequestedExposed)
    => /\ retval.value.with_mcp_tool.value.tool_called
            = message_with_tool.function_call.name
       /\ retval.value.without_tool.value.model_reply = message_no_tool.content

C8_Witness ==
    /\ pc = "done"
    /\ RunReturned
    /\ RequestedExposed
    /\ retval.value.with_mcp_tool.value.tool_called = PyStr("get_weather")
    /\ Truthy(retval.value.without_tool.value.model_reply)

OpNames == [i \in 1..Len(log) |-> log[i].op]

IsPrefix(a, b) == Len(a) <= Len(b) /\ \A i \in 1..Len(a) : a[i] = b[i]

Released == Len(log) > 0 /\ log[Len(log)].op = "release_channel"

\* the operations before the release
Body == IF Released THEN SubSeq(OpNames, 1, Len(log) - 1) ELSE OpNames

ExpectedOrder ==
    <<"open_channel", "initialize", "list_tools", "completion">>
    \o (IF FunctionCallRequested THEN <<"call_tool">> ELSE <<>>)
    \o <<"completion">>

\* C9: the external operations are issued in the fixed order open, initialize,
\* list-tools, completion with the function list and "auto", the tool call
\* exactly when the first reply asks for one, completion without functions; an
\* operation starts only after the one before it has returned.
C9_FixedOrder ==
    /\ IsPrefix(Body, ExpectedOrder)
    /\ \A i \in 1..Len(Body) :
         /\ i > 1 => log[i - 1].out \in {"ok", "error_result"}
         /\ (Body[i] = "completion" /\ i = 4)
            => /\ log[i].args.value.functions = functions
               /\ log[i].args.value.function_call = PyStr("auto")
         /\ (Body[i] = "completion" /\ i > 4)
            => /\ "functions" \notin DOMAIN log[i].args.value
               /\ log[i].args.value.messages = log[4].args.value.messages
    /\ (pc = "done" /\ exc = None) => (Body = ExpectedOrder /\ Released)

C9_Witness ==
    /\ pc = "done"
    /\ exc = None
    /\ OpNames = <<"open_channel", "initialize", "list_tools", "completion",
                   "call_tool", "completion", "release_channel">>

\* C10: initialize, list-tools and the tool call are issued at most once, the
\* completion endpoint is called at most twice and exactly twice in a run that
\* returns, and after an operation has failed only the release follows.
C10_NoRetryNothingAfterFailure ==
    /\ OpCount("initialize") <= 1
    /\ OpCount("list_tools") <= 1
    /\ OpCount("call_tool") <= 1
    /\ OpCount("completion") <= 2
    /\ RunReturned => OpCount("completion") = 2
    /\ \A i, j \in 1..Len(log) :
         (i < j /\ log[i].out \in {"raised", "error_result"})
         => log[j].op = "release_channel"

====
